---- MODULE Spec2Model ----
(***************************************************************************)
(* Model of src/src/Observable.ts: a tree of Observable nodes, the         *)
(* emit / subscribe / unsubscribe / merge operations, and the promise      *)
(* chains that emit builds for every subscriber,                           *)
(*   Promise.resolve(val).then(_onEmit, _onError).then(emit, _nextErr),    *)
(* executed by a FIFO job queue on a single thread.                        *)
(*                                                                         *)
(* User code runs in turns ("sync"): it calls subscribe, unsubscribe,      *)
(* emit and merge and settles futures it made. Between turns the promise   *)
(* engine runs the queued reactions to the end of the queue ("drain").     *)
(* A user handler is a function of user code: each call of it returns a    *)
(* plain value, throws, or returns a pending future that user code         *)
(* resolves, rejects or leaves pending for ever. Observable never looks    *)
(* into the values it carries, so emitted values are numbered by emit      *)
(* call and a handler's result is a value no emit call uses.               *)
(*                                                                         *)
(* The promise engine calls a reaction as a plain function. emit is a      *)
(* prototype method that reads this.subscribers, so a reference to it      *)
(* that was taken off an object without bind runs without its receiver     *)
(* and throws a TypeError before it dispatches anything; the rejection     *)
(* that results has no handler.                                            *)
(***************************************************************************)
EXTENDS Integers, Sequences, FiniteSets, TLC

\* ------------------------------------------------------------------ bounds
MaxNodes == 6        \* nodes ever constructed
MaxRoots == 2        \* nodes constructed by user code with new Observable()
MaxOps == 4          \* calls of subscribe, unsubscribe, emit and merge, and futures settled, by user code
MaxEmits == 2        \* emit calls made by user code
MaxUnsubs == 2       \* unsubscribe calls made by user code
MaxThrows == 1       \* handler calls that throw
MaxFutures == 1      \* pending futures made by user code (emitted or returned by a handler)
MaxSources == 2      \* length of the iterable handed to merge

Nodes == 1..MaxNodes

VARIABLES
    nNodes,       \* number of nodes constructed so far; their ids are 1..nNodes
    subscribers,  \* subscribers[n]: the node's ordered sequence of children
    publisher,    \* publisher[n]: the parent set by subscribe, 0 when absent
    onEmit,       \* onEmit[n]: the node's _onEmit
    onError,      \* onError[n]: the node's _onError
    merged,       \* nodes returned by Observable.merge
    futures,      \* futures created by user code: state and registered reactions
    queue,        \* the promise engine's FIFO queue of reaction jobs
    mode,         \* "sync": user code is running; "drain": the job queue is running
    emits,        \* history: every call of emit with a receiver, in call order
    log,          \* history: every call of a handler, of emit (unbound) or of _nextErr
    unsubAt,      \* history: unsubAt[n] = number of emit calls before n's first unsubscribe
    calls         \* history: how many times user code called each operation

vars == <<nNodes, subscribers, publisher, onEmit, onError, merged, futures,
          queue, mode, emits, log, unsubAt, calls>>

\* ------------------------------------------------------------ data shapes
\* A value as the promise engine sees it: fulfilled with v, rejected with
\* reason v, or the user future number v.
Ok(v) == [t |-> "ok", v |-> v]
Err(r) == [t |-> "err", v |-> r]
Fut(f) == [t |-> "fut", v |-> f]

\* What a function returns when it returns nothing.
Undefined == 0

\* Handlers: absent, a user function, or one of the two closures of merge.
NoHandler == [k |-> "none", t |-> 0]
UserFn == [k |-> "user", t |-> 0]
MergeEmit(m) == [k |-> "mergeEmit", t |-> m]
MergeOnError(m) == [k |-> "mergeErr", t |-> m]

Job(stage, sub, val, e) == [stage |-> stage, sub |-> sub, val |-> val, e |-> e]

\* -------------------------------------------------------- array helpers
\* Array.prototype.indexOf, 0-based, -1 when absent.
IndexOf(s, x) ==
    IF \E i \in 1..Len(s) : s[i] = x
    THEN (CHOOSE i \in 1..Len(s) : s[i] = x /\ \A j \in 1..(i-1) : s[j] # x) - 1
    ELSE -1

\* Array.prototype.splice(start, 1): a negative start counts from the end.
Splice1(s, start) ==
    LET from == IF start < 0
                THEN (IF Len(s) + start < 0 THEN 0 ELSE Len(s) + start)
                ELSE (IF start > Len(s) THEN Len(s) ELSE start)
    IN  IF from >= Len(s) THEN s
        ELSE SubSeq(s, 1, from) \o SubSeq(s, from + 2, Len(s))

\* ------------------------------------------------------------------ Init
\* new Observable(executor), MaxRoots times: root nodes with no subscribers
\* and no publisher; nothing is in flight. The executor has run and has kept
\* the function it was handed, as in the documented keyup example.
Init ==
    /\ nNodes = MaxRoots
    /\ subscribers = [n \in Nodes |-> <<>>]
    /\ publisher = [n \in Nodes |-> 0]
    /\ onEmit = [n \in Nodes |-> NoHandler]
    /\ onError = [n \in Nodes |-> NoHandler]
    /\ merged = {}
    /\ futures = <<>>
    /\ queue = <<>>
    /\ mode = "sync"
    /\ emits = <<>>
    /\ log = <<>>
    /\ unsubAt = [n \in Nodes |-> -1]
    /\ calls = [subscribe |-> 0, unsubscribe |-> 0, emit |-> 0, merge |-> 0, settle |-> 0,
                external |-> 0]

TotalCalls == calls.subscribe + calls.unsubscribe + calls.emit + calls.merge + calls.settle

\* ------------------------------------------------------------------ emit
\* Mutant: the loop stops one subscriber early (i < len - 1).
EmitTargetsShort(n) ==
    LET len == Len(subscribers[n])
    IN  [i \in 1..(len - 1) |-> subscribers[n][i]]

\* Mutant: the loop runs from the last subscriber to the first.
EmitTargetsReversed(n) ==
    [i \in 1..Len(subscribers[n]) |-> subscribers[n][Len(subscribers[n]) + 1 - i]]

\* The subscribers visited by emit's loop: len is read once, then
\* this.subscribers[i++] for i = 0 .. len-1.
EmitTargets(n) ==
    LET len == Len(subscribers[n])
    IN  [i \in 1..len |-> subscribers[n][i]]

\* The first reaction of each chain built by the loop,
\* Promise.resolve(val).then(subscriber._onEmit, subscriber._onError),
\* in the order the loop builds them.
EmitJobs(n, val, e) ==
    [i \in 1..Len(EmitTargets(n)) |-> Job(1, EmitTargets(n)[i], val, e)]

\* History of one emit call: the receiver, the value, the receiver's
\* subscribers and the number of nodes at the time of the call, and the
\* chain (emission cause, subscriber via) whose reaction made the call
\* (0, 0 for a call by user code).
EmitRecord(n, val, cause, via) ==
    [node |-> n, val |-> val, subs |-> subscribers[n], count |-> nNodes,
     cause |-> cause, via |-> via]

\* The values user code hands to emit are opaque to Observable: the k-th
\* emit call of user code emits the value k (as a plain value, as the reason
\* of a failed future, or as what a pending future later settles with).
EmitValue == calls.emit + 1

\* What a user handler produces from the value or reason v it is called
\* with: a value different from every emitted value.
Transform(v) == v + MaxEmits

\* emit called by user code on node n with a plain value or an already
\* failed future: every first reaction is queued at once.
Emit(n, val) ==
    /\ mode = "sync"
    /\ TotalCalls < MaxOps /\ calls.emit < MaxEmits
    /\ n \in 1..nNodes
    /\ emits' = Append(emits, EmitRecord(n, val, 0, 0))
    /\ queue' = queue \o EmitJobs(n, val, Len(emits) + 1)
    /\ calls' = [calls EXCEPT !.emit = @ + 1]
    /\ UNCHANGED <<nNodes, subscribers, publisher, onEmit, onError, merged,
                   futures, mode, log, unsubAt>>

\* Promise.resolve(val) of a pending future val is that future: the first
\* reaction of every chain waits on it.
\* (mutant: emit hands val itself to the handlers, without Promise.resolve)
EmitPendingAsValue(n, f, e) ==
    [queued |-> EmitJobs(n, Ok(f), e), waiters |-> <<>>]
EmitPendingReactions(n, f, e) ==
    [queued |-> <<>>, waiters |-> EmitJobs(n, Fut(f), e)]

\* emit called by user code on node n with a future that is still pending:
\* the first reactions wait on the future.
EmitPending(n) ==
    /\ mode = "sync"
    /\ TotalCalls < MaxOps /\ calls.emit < MaxEmits
    /\ Len(futures) < MaxFutures
    /\ n \in 1..nNodes
    /\ LET f == Len(futures) + 1
           e == Len(emits) + 1
           r == EmitPendingReactions(n, f, e)
       IN  /\ emits' = Append(emits, EmitRecord(n, Fut(f), 0, 0))
           /\ queue' = queue \o r.queued
           /\ futures' = Append(futures,
                  [settled |-> FALSE, val |-> Fut(f), with |-> EmitValue,
                   waiters |-> r.waiters])
    /\ calls' = [calls EXCEPT !.emit = @ + 1]
    /\ UNCHANGED <<nNodes, subscribers, publisher, onEmit, onError, merged,
                   mode, log, unsubAt>>

\* A pending future settles with val: its reactions are queued in the
\* order they were registered, with the settled value.
Settle(f, val) ==
    /\ mode = "sync"
    /\ TotalCalls < MaxOps
    /\ f \in 1..Len(futures)
    /\ ~futures[f].settled
    /\ futures' = [futures EXCEPT ![f] = [@ EXCEPT !.settled = TRUE, !.val = val, !.waiters = <<>>]]
    /\ queue' = queue \o [i \in 1..Len(futures[f].waiters) |->
                             [futures[f].waiters[i] EXCEPT !.val = val]]
    /\ calls' = [calls EXCEPT !.settle = @ + 1]
    /\ UNCHANGED <<nNodes, subscribers, publisher, onEmit, onError, merged,
                   mode, emits, log, unsubAt>>

\* User code resolves, or rejects, a future it made.
Resolve(f) == Settle(f, Ok(futures[f].with))
Reject(f) == Settle(f, Err(futures[f].with))

\* ------------------------------------------------------------- subscribe
\* Mutant: the subscriber is pushed twice.
SubscribePushTwice(subs, self, subscriber) ==
    [subs EXCEPT ![self] = Append(Append(@, subscriber), subscriber)]

SubscribePush(subs, self, subscriber) ==
    [subs EXCEPT ![self] = Append(@, subscriber)]

\* Mutant: a node subscribed while an emission of self is still waiting in
\* the job queue is given a chain for that emission too.
SubscribeJoinsInFlight(self, he, hr) ==
    /\ mode = "sync"
    /\ TotalCalls < MaxOps
    /\ self \in 1..nNodes
    /\ nNodes < MaxNodes
    /\ LET subscriber == nNodes + 1
           waiting == {i \in 1..Len(queue) :
                          queue[i].stage = 1 /\ emits[queue[i].e].node = self}
       IN  /\ nNodes' = subscriber
           /\ onEmit' = [onEmit EXCEPT ![subscriber] = he]
           /\ onError' = [onError EXCEPT ![subscriber] = hr]
           /\ publisher' = [publisher EXCEPT ![subscriber] = self]
           /\ subscribers' = SubscribePush(subscribers, self, subscriber)
           /\ queue' = IF waiting = {} THEN queue
                       ELSE LET j == queue[CHOOSE i \in waiting : \A k \in waiting : k <= i]
                            IN  Append(queue, Job(1, subscriber, j.val, j.e))
    /\ calls' = [calls EXCEPT !.subscribe = @ + 1]
    /\ UNCHANGED <<merged, futures, mode, emits, log, unsubAt>>
Subscribe(self, he, hr) ==
    /\ mode = "sync"
    /\ TotalCalls < MaxOps
    /\ self \in 1..nNodes
    /\ nNodes < MaxNodes
    /\ LET subscriber == nNodes + 1
       IN  /\ nNodes' = subscriber
           /\ onEmit' = [onEmit EXCEPT ![subscriber] = he]
           /\ onError' = [onError EXCEPT ![subscriber] = hr]
           /\ publisher' = [publisher EXCEPT ![subscriber] = self]
           /\ subscribers' = SubscribePush(subscribers, self, subscriber)
    /\ calls' = [calls EXCEPT !.subscribe = @ + 1]
    /\ UNCHANGED <<merged, futures, queue, mode, emits, log, unsubAt>>

\* ----------------------------------------------------------- unsubscribe
\* Mutant: splice at the index after the node's own.
UnsubscribeOffByOne(subs, pub, this) ==
    IF pub[this] = 0 THEN subs
    ELSE [subs EXCEPT ![pub[this]] = Splice1(@, IndexOf(@, this) + 1)]

\* Mutant: unsubscribe also drops the node's own subscribers.
UnsubscribeClearsOwn(subs, pub, this) ==
    IF pub[this] = 0 THEN [subs EXCEPT ![this] = <<>>]
    ELSE [subs EXCEPT ![pub[this]] = Splice1(@, IndexOf(@, this)), ![this] = <<>>]

\* publisher && publisher.subscribers.splice(publisher.subscribers.indexOf(this), 1)
UnsubscribeResult(subs, pub, this) ==
    IF pub[this] = 0 THEN subs
    ELSE [subs EXCEPT ![pub[this]] = Splice1(@, IndexOf(@, this))]

Unsubscribe(this) ==
    /\ mode = "sync"
    /\ TotalCalls < MaxOps /\ calls.unsubscribe < MaxUnsubs
    /\ this \in 1..nNodes
    /\ subscribers' = UnsubscribeResult(subscribers, publisher, this)
    /\ unsubAt' = [unsubAt EXCEPT ![this] = IF @ = -1 THEN Len(emits) ELSE @]
    /\ calls' = [calls EXCEPT !.unsubscribe = @ + 1]
    /\ UNCHANGED <<nNodes, publisher, onEmit, onError, merged, futures, queue,
                   mode, emits, log>>

\* ----------------------------------------------------------------- merge
\* Observable.merge(iterable): a new node m whose executor subscribes
\* (emit bound to m, onError) to every item of the iterable, in order.
\* The subscriber made for item i is node m + i.
MergeSubscribers(subs, srcs, m) ==
    [n \in Nodes |->
        subs[n] \o SelectSeq([i \in 1..Len(srcs) |-> m + i],
                             LAMBDA c : srcs[c - m] = n)]

Merge(srcs) ==
    /\ mode = "sync"
    /\ TotalCalls < MaxOps /\ calls.merge < 1
    /\ nNodes + 1 + Len(srcs) <= MaxNodes
    /\ \A i \in 1..Len(srcs) : srcs[i] \in 1..nNodes
    /\ LET m == nNodes + 1
           made == (m + 1)..(m + Len(srcs))
       IN  /\ nNodes' = m + Len(srcs)
           /\ merged' = merged \cup {m}
           /\ onEmit' = [n \in Nodes |-> IF n \in made THEN MergeEmit(m) ELSE onEmit[n]]
           /\ onError' = [n \in Nodes |-> IF n \in made THEN MergeOnError(m) ELSE onError[n]]
           /\ publisher' = [n \in Nodes |-> IF n \in made THEN srcs[n - m] ELSE publisher[n]]
           /\ subscribers' = MergeSubscribers(subscribers, srcs, m)
    /\ calls' = [calls EXCEPT !.merge = @ + 1]
    /\ UNCHANGED <<futures, queue, mode, emits, log, unsubAt>>

\* ------------------------------------------------- the promise job queue
\* The engine starts running queued reactions once user code has returned,
\* and runs them to the end of the queue before user code runs again.
Yield ==
    /\ mode = "sync"
    /\ queue # <<>>
    /\ mode' = "drain"
    /\ UNCHANGED <<nNodes, subscribers, publisher, onEmit, onError, merged,
                   futures, queue, emits, log, unsubAt, calls>>

ModeAfter(q) == IF q = <<>> THEN "sync" ELSE "drain"

\* History of one call made by a reaction of the chain (subscriber n,
\* emission e): which function h was called, with what, what it produced,
\* the subscribers n had at that time, and whether n was then still in its
\* publisher's subscribers.
LogEntry(n, h, arg, e, out) ==
    [node |-> n, h |-> h, arg |-> arg, e |-> e, out |-> out, kids |-> subscribers[n],
     attached |-> IF publisher[n] = 0 THEN FALSE
                  ELSE IndexOf(subscribers[publisher[n]], n) # -1]

\* The handler the first then picks for a settled value.
FirstHandler(s, val) == IF val.t = "ok" THEN onEmit[s] ELSE onError[s]
FirstHandlerName(val) == IF val.t = "ok" THEN "onEmit" ELSE "onError"

\* The receiver emit runs with when it is called through each reference:
\* 0 stands for no receiver (a bare function call).
\*   .then(subscriber.emit, ...)             the method taken off the object
ThenEmitReceiver(subscriber) == 0
\*   subscriber.emit(_.Promise.reject(reason))   in _nextErr
\* (mutant: _nextErr calls emit taken off the object, without receiver)
NextErrDetached(subscriber) == 0
\* (mutant: _nextErr emits into the publisher, self.emit, not into the subscriber)
NextErrIntoPublisher(subscriber) == publisher[subscriber]
NextErrReceiver(subscriber) == subscriber
\*   executor(this.emit.bind(this))          the emit handed to merge's executor
\* (mutant: the executor is handed this.emit without bind)
UnboundEmitReceiver(m) == 0
BoundEmitReceiver(m) == m

\* emit called with receiver this from inside a reaction: without a receiver
\* reading this.subscribers throws a TypeError before anything is dispatched.
EmitThrows(this) == this = 0
EmitQueue(q, this, val) ==
    IF EmitThrows(this) THEN q ELSE q \o EmitJobs(this, val, Len(emits) + 1)
EmitHistory(this, val, cause, via) ==
    IF EmitThrows(this) THEN emits ELSE Append(emits, EmitRecord(this, val, cause, via))

\* The function the constructor handed to the executor of root n,
\* this.emit.bind(this), called later by user code with no receiver of its
\* own (a timer, a DOM callback).
ExecutorEmit(n, val) ==
    /\ mode = "sync"
    /\ TotalCalls < MaxOps /\ calls.emit < MaxEmits
    /\ n \in 1..MaxRoots
    /\ LET this == BoundEmitReceiver(n)
       IN  /\ emits' = EmitHistory(this, val, 0, 0)
           /\ queue' = EmitQueue(queue, this, val)
    /\ calls' = [calls EXCEPT !.emit = @ + 1, !.external = @ + 1]
    /\ UNCHANGED <<nNodes, subscribers, publisher, onEmit, onError, merged,
                   futures, mode, log, unsubAt>>

\* First then, handler absent: the value or the failure passes through
\* unchanged to the second then.
PassThrough ==
    /\ mode = "drain" /\ queue # <<>>
    /\ LET j == Head(queue)
       IN  /\ j.stage = 1
           /\ FirstHandler(j.sub, j.val).k = "none"
           /\ queue' = Append(Tail(queue), Job(2, j.sub, j.val, j.e))
    /\ mode' = ModeAfter(queue')
    /\ UNCHANGED <<nNodes, subscribers, publisher, onEmit, onError, merged,
                   futures, emits, log, unsubAt, calls>>

Throws == Cardinality({i \in 1..Len(log) : log[i].h \in {"onEmit", "onError"} /\ log[i].out.t = "err"})

\* First then, user handler that ends with out: the handler is called with
\* the settled value and the second then is queued with the outcome.
CallHandler(out) ==
    /\ mode = "drain" /\ queue # <<>>
    /\ LET j == Head(queue)
       IN  /\ j.stage = 1
           /\ FirstHandler(j.sub, j.val).k = "user"
           /\ log' = Append(log, LogEntry(j.sub, FirstHandlerName(j.val), j.val, j.e, out))
           /\ queue' = Append(Tail(queue), Job(2, j.sub, out, j.e))
    /\ mode' = ModeAfter(queue')
    /\ UNCHANGED <<nNodes, subscribers, publisher, onEmit, onError, merged,
                   futures, emits, unsubAt, calls>>

\* The user handler returns a plain value.
HandlerReturns ==
    /\ queue # <<>>
    /\ CallHandler(Ok(Transform(Head(queue).val.v)))

\* The user handler throws.
HandlerThrows ==
    /\ queue # <<>>
    /\ Throws < MaxThrows
    /\ CallHandler(Err(Transform(Head(queue).val.v)))

\* Mutant: the second then does not wait for the returned future and is
\* queued with the future object as its value.
ThenOnFutureEager(j, f) ==
    [queued |-> <<Job(2, j.sub, Ok(f), j.e)>>, waiters |-> <<>>]

\* Mutant: the second then does not wait for the returned future and runs
\* its failure branch with the future object.
ThenOnFutureFailsEarly(j, f) ==
    [queued |-> <<Job(2, j.sub, Err(f), j.e)>>, waiters |-> <<>>]

\* The first then's promise follows the future f the handler returned: the
\* second then is not queued, it waits until f settles.
ThenOnFuture(j, f) ==
    [queued |-> <<>>, waiters |-> <<Job(2, j.sub, Fut(f), j.e)>>]

\* First then, user handler that returns a pending future.
HandlerReturnsFuture ==
    /\ mode = "drain" /\ queue # <<>>
    /\ LET j == Head(queue)
           f == Len(futures) + 1
       IN  /\ j.stage = 1
           /\ FirstHandler(j.sub, j.val).k = "user"
           /\ Len(futures) < MaxFutures
           /\ log' = Append(log, LogEntry(j.sub, FirstHandlerName(j.val), j.val, j.e, Fut(f)))
           /\ futures' = Append(futures,
                  [settled |-> FALSE, val |-> Fut(f), with |-> Transform(j.val.v),
                   waiters |-> ThenOnFuture(j, f).waiters])
           /\ queue' = Tail(queue) \o ThenOnFuture(j, f).queued
    /\ mode' = ModeAfter(queue')
    /\ UNCHANGED <<nNodes, subscribers, publisher, onEmit, onError, merged,
                   emits, unsubAt, calls>>

\* Mutant: merge's onError hands the reason to emit as a plain value.
MergeValuePlain(h, val) == Ok(val.v)

\* What a closure of merge hands to emit: the success handler is emit
\* itself, onError(e) calls emit(_.Promise.reject(e)).
MergeValue(h, val) == IF h.k = "mergeEmit" THEN val ELSE Err(val.v)

\* First then, a closure of merge: emit (bound to m) for a value,
\* onError for a failure. Either returns nothing, so the second then is
\* queued with undefined.
CallMerge ==
    /\ mode = "drain" /\ queue # <<>>
    /\ LET j == Head(queue)
           h == FirstHandler(j.sub, j.val)
           this == BoundEmitReceiver(h.t)
       IN  /\ j.stage = 1
           /\ h.k \in {"mergeEmit", "mergeErr"}
           /\ log' = Append(log, LogEntry(j.sub, FirstHandlerName(j.val), j.val, j.e, Ok(Undefined)))
           /\ emits' = EmitHistory(this, MergeValue(h, j.val), j.e, j.sub)
           /\ queue' = Append(EmitQueue(Tail(queue), this, MergeValue(h, j.val)),
                              Job(2, j.sub, Ok(Undefined), j.e))
    /\ mode' = ModeAfter(queue')
    /\ UNCHANGED <<nNodes, subscribers, publisher, onEmit, onError, merged,
                   futures, unsubAt, calls>>

\* Second then, success: subscriber.emit is called with the result.
ForwardEmit ==
    /\ mode = "drain" /\ queue # <<>>
    /\ LET j == Head(queue)
           this == ThenEmitReceiver(j.sub)
       IN  /\ j.stage = 2
           /\ j.val.t = "ok"
           /\ log' = Append(log, LogEntry(j.sub, "emit", j.val, j.e,
                                IF EmitThrows(this) THEN [t |-> "typeerror", v |-> 0]
                                ELSE Ok(Undefined)))
           /\ emits' = EmitHistory(this, j.val, j.e, j.sub)
           /\ queue' = EmitQueue(Tail(queue), this, j.val)
    /\ mode' = ModeAfter(queue')
    /\ UNCHANGED <<nNodes, subscribers, publisher, onEmit, onError, merged,
                   futures, unsubAt, calls>>

\* Mutant: _nextErr emits the reason as a plain value.
NextErrResolves(reason) == Ok(reason)

\* _nextErr(reason) emits _.Promise.reject(reason).
NextErrValue(reason) == Err(reason)

\* Second then, failure: subscriber._nextErr(reason) emits the failed value
\* into the subscriber itself.
NextErr ==
    /\ mode = "drain" /\ queue # <<>>
    /\ LET j == Head(queue)
           this == NextErrReceiver(j.sub)
       IN  /\ j.stage = 2
           /\ j.val.t = "err"
           /\ log' = Append(log, LogEntry(j.sub, "nextErr", j.val, j.e, Ok(Undefined)))
           /\ emits' = EmitHistory(this, NextErrValue(j.val.v), j.e, j.sub)
           /\ queue' = EmitQueue(Tail(queue), this, NextErrValue(j.val.v))
    /\ mode' = ModeAfter(queue')
    /\ UNCHANGED <<nNodes, subscribers, publisher, onEmit, onError, merged,
                   futures, unsubAt, calls>>

\* ------------------------------------------------------------------ Next
\* The values user code emits at once: a plain value or a failed future.
Emitted == {Ok(EmitValue), Err(EmitValue)}
HandlerPairs == {<<NoHandler, NoHandler>>, <<UserFn, NoHandler>>, <<UserFn, UserFn>>}
Iterables == {srcs \in UNION {[1..k -> Nodes] : k \in 1..MaxSources} :
                 \A i \in 1..(Len(srcs) - 1) : srcs[i] < srcs[i + 1]}

Next ==
    \/ \E n \in Nodes, val \in Emitted : Emit(n, val)
    \/ \E n \in Nodes, val \in Emitted : ExecutorEmit(n, val)
    \/ \E n \in Nodes : EmitPending(n)
    \/ \E f \in 1..Len(futures) : Resolve(f)
    \/ \E f \in 1..Len(futures) : Reject(f)
    \/ \E self \in Nodes, h \in HandlerPairs : Subscribe(self, h[1], h[2])
    \/ \E this \in Nodes : Unsubscribe(this)
    \/ \E srcs \in Iterables : Merge(srcs)
    \/ Yield
    \/ PassThrough
    \/ HandlerReturns
    \/ HandlerThrows
    \/ HandlerReturnsFuture
    \/ CallMerge
    \/ ForwardEmit
    \/ NextErr

Spec == Init /\ [][Next]_vars

\* The engine keeps running queued reactions until the queue is empty.
Drain ==
    \/ Yield
    \/ PassThrough
    \/ HandlerReturns
    \/ HandlerThrows
    \/ HandlerReturnsFuture
    \/ CallMerge
    \/ ForwardEmit
    \/ NextErr

FairSpec == Spec /\ WF_vars(Drain)

\* Under that fairness every queued reaction is run.
QueueDrains == (queue # <<>>) ~> (queue = <<>>)

TypeOK ==
    /\ nNodes \in Nodes
    /\ mode \in {"sync", "drain"}
    /\ \A n \in Nodes : n > nNodes => subscribers[n] = <<>> /\ publisher[n] = 0

\* ------------------------------------------------------ reading history
Range(s) == {s[i] : i \in 1..Len(s)}

\* The handler calls (onEmit or onError) made on node c for emission e.
HandlerCalls(c, e) ==
    {i \in 1..Len(log) : log[i].node = c /\ log[i].e = e /\ log[i].h \in {"onEmit", "onError"}}

\* The value emission e carries once its future, if any, has settled.
EmittedVal(e) ==
    IF emits[e].val.t = "fut" THEN futures[emits[e].val.v].val ELSE emits[e].val

\* A reaction of the given stage of the chain (c, e) is still queued or
\* still waits on a pending future.
InFlight(c, e, stage) ==
    \/ \E i \in 1..Len(queue) :
          queue[i].sub = c /\ queue[i].e = e /\ queue[i].stage = stage
    \/ \E f \in 1..Len(futures) : \E i \in 1..Len(futures[f].waiters) :
          LET w == futures[f].waiters[i]
          IN  w.sub = c /\ w.e = e /\ w.stage = stage

\* The emit calls made by the chain (s, e) on node n.
EmitsBy(s, e, n) ==
    {k \in 1..Len(emits) : emits[k].cause = e /\ emits[k].via = s /\ emits[k].node = n}

\* ------------------------------------------------------------------- C1
\* C1: once a node c returned by subscribe has been unsubscribed, no emit
\* call made on its publisher afterwards invokes c's onEmit or onError:
\* every handler call on c for an emission of its publisher belongs to an
\* emit call made before c's first unsubscribe.
C1_NoDeliveryAfterUnsubscribe ==
    \A i \in 1..Len(log) :
        LET c == log[i].node
        IN  (/\ log[i].h \in {"onEmit", "onError"}
             /\ publisher[c] # 0
             /\ unsubAt[c] # -1
             /\ emits[log[i].e].node = publisher[c])
            => log[i].e <= unsubAt[c]

\* A node was unsubscribed, its publisher was emitted into afterwards, and
\* that emission reached a handler of a sibling that stayed subscribed.
C1_Witness ==
    \E c \in 1..nNodes, e \in 1..Len(emits) :
        /\ publisher[c] # 0
        /\ unsubAt[c] # -1
        /\ e > unsubAt[c]
        /\ emits[e].node = publisher[c]
        /\ \E d \in Range(emits[e].subs) : d # c /\ HandlerCalls(d, e) # {}

\* ------------------------------------------------------------------- C2
\* The node has no publisher, or is no longer among its publisher's
\* subscribers.
Detached(c) == publisher[c] = 0 \/ c \notin Range(subscribers[publisher[c]])

\* C2: unsubscribe is a no-op on a node without publisher and on a node
\* already removed from its publisher's subscribers: such a call leaves
\* every node's subscribers sequence as it was.
C2_UnsubscribeDetachedIsNoop ==
    [][\A c \in 1..nNodes : (Detached(c) /\ Unsubscribe(c)) => subscribers' = subscribers]_vars

\* ------------------------------------------------------------------- C3
\* What a handler call produced once it is known: the plain value
\* returned, the reason thrown, or what the returned future settled with
\* (the future itself while it is pending).
Outcome(i) ==
    IF log[i].out.t = "fut" THEN futures[log[i].out.v].val ELSE log[i].out

\* Nodes subscribed to s since before emission e was made and still
\* subscribed.
SteadyChildren(s, e) == {g \in Range(subscribers[s]) : g <= emits[e].count}

\* C3: success values flow down a pipeline: when the onEmit of a
\* subscriber s produced the value w for an emission (returned it, or
\* returned a future that resolved to it), then once the job queue has
\* drained every child g of s that has an onEmit has had it called with w
\* by an emission that s made for that chain.
C3_SuccessFlowsDown ==
    \A i \in 1..Len(log) :
        (/\ log[i].h = "onEmit"
         /\ onEmit[log[i].node].k = "user"
         /\ Outcome(i).t = "ok"
         /\ queue = <<>>)
        => \A g \in SteadyChildren(log[i].node, log[i].e) :
              onEmit[g].k = "user"
              => \E m \in 1..Len(log) :
                    /\ log[m].node = g
                    /\ log[m].h = "onEmit"
                    /\ log[m].arg = Outcome(i)
                    /\ emits[log[m].e].cause = log[i].e
                    /\ emits[log[m].e].via = log[i].node

\* ------------------------------------------------------------------- C4
\* What must follow once the chain (s, e) has ended in the failure Err(r):
\* s emits Err(r) into itself at most once, exactly once when the chain has
\* left the queue; every child of s subscribed at that emit has only its
\* onError called for it, with r, at most once, and exactly once when its
\* first reaction has left the queue.
FailureReachesChildren(s, e, r) ==
    LET re == EmitsBy(s, e, s)
    IN  /\ Cardinality(re) <= 1
        /\ (~InFlight(s, e, 1) /\ ~InFlight(s, e, 2)) => Cardinality(re) = 1
        /\ \A k \in re :
              /\ emits[k].val = Err(r)
              /\ \A c \in Range(emits[k].subs) :
                    /\ \A m \in HandlerCalls(c, k) :
                          log[m].h = "onError" /\ log[m].arg = Err(r)
                    /\ Cardinality(HandlerCalls(c, k)) <= 1
                    /\ (onError[c].k # "none" /\ ~InFlight(c, k, 1))
                       => Cardinality(HandlerCalls(c, k)) = 1

\* C4: when a failed value with reason r is emitted into a node and a
\* subscriber s of it has no onError, s re-emits the failure: every child
\* of s subscribed at that time has its onError called with r and never
\* its onEmit.
C4_FailurePassesThroughWithoutOnError ==
    \A e \in 1..Len(emits) : \A s \in Range(emits[e].subs) :
        (EmittedVal(e).t = "err" /\ onError[s].k = "none")
        => FailureReachesChildren(s, e, EmittedVal(e).v)

\* A failure went through a subscriber without onError and reached the
\* onError of that subscriber's child.
C4_Witness ==
    \E e \in 1..Len(emits) : \E s \in Range(emits[e].subs) :
        /\ EmittedVal(e).t = "err"
        /\ onError[s].k = "none"
        /\ \E k \in EmitsBy(s, e, s) : \E c \in Range(emits[k].subs) :
              \E m \in HandlerCalls(c, k) : log[m].arg = EmittedVal(e)

\* ------------------------------------------------------------------- C5
\* C5: when a user handler of subscriber s (onEmit or onError) throws r,
\* or returns a future that rejects with r, _nextErr emits the failed
\* value r into s, so every child of s has its onError called with r.
C5_HandlerFailureReachesChildren ==
    \A i \in 1..Len(log) :
        (/\ log[i].h \in {"onEmit", "onError"}
         /\ FirstHandler(log[i].node, log[i].arg).k = "user"
         /\ Outcome(i).t = "err")
        => FailureReachesChildren(log[i].node, log[i].e, Outcome(i).v)

\* A handler threw and the reason reached the onError of a child.
C5_Witness ==
    \E i \in 1..Len(log) :
        /\ log[i].h \in {"onEmit", "onError"}
        /\ log[i].out.t = "err"
        /\ \E k \in EmitsBy(log[i].node, log[i].e, log[i].node) :
              \E c \in Range(emits[k].subs) : \E m \in HandlerCalls(c, k) :
                  log[m].h = "onError" /\ log[m].arg = log[i].out

\* A handler returned a future that rejected later and the reason reached
\* the onError of a child.
C5_WitnessRejected ==
    \E i \in 1..Len(log) :
        /\ log[i].h \in {"onEmit", "onError"}
        /\ log[i].out.t = "fut"
        /\ Outcome(i).t = "err"
        /\ \E k \in EmitsBy(log[i].node, log[i].e, log[i].node) :
              \E c \in Range(emits[k].subs) : \E m \in HandlerCalls(c, k) :
                  log[m].h = "onError" /\ log[m].arg = Outcome(i)

\* ------------------------------------------------------------------- C6
\* Emission k was made, directly or through further subscribers, by the
\* chain (b, e).
RECURSIVE FromChain(_, _, _)
FromChain(k, b, e) ==
    /\ k # 0
    /\ \/ emits[k].cause = e /\ emits[k].via = b
       \/ FromChain(emits[k].cause, b, e)

\* The handler of subscriber c that an emission carrying val calls.
Receives(c, e) ==
    /\ EmittedVal(e).t # "fut"
    /\ FirstHandler(c, EmittedVal(e)).k # "none"
    /\ ~InFlight(c, e, 1)

\* C6: while the future returned by subscriber b's handler for emission e
\* has not settled, neither b's emit nor b's _nextErr has been called for
\* that emission and no call of any kind descends from it; every sibling
\* of b has its handler called for the same emission, and every later
\* emission into the same publisher still calls the handlers of b and of
\* its siblings that are still subscribed.
C6_PendingTransformBlocksOnlyItsBranch ==
    \A i \in 1..Len(log) :
        LET b == log[i].node
            e == log[i].e
            p == emits[e].node
        IN  (/\ log[i].h \in {"onEmit", "onError"}
             /\ log[i].out.t = "fut"
             /\ ~futures[log[i].out.v].settled)
            => /\ \A m \in 1..Len(log) :
                     /\ ~(log[m].node = b /\ log[m].e = e /\ log[m].h \in {"emit", "nextErr"})
                     /\ ~FromChain(log[m].e, b, e)
               /\ \A k \in 1..Len(emits) : ~FromChain(k, b, e)
               /\ \A c \in Range(emits[e].subs) \ {b} :
                     Receives(c, e) => Cardinality(HandlerCalls(c, e)) = 1
               /\ \A e2 \in (e + 1)..Len(emits) :
                     emits[e2].node = p
                     => \A c \in Range(emits[e].subs) \cap Range(subscribers[p]) :
                           /\ c \in Range(emits[e2].subs)
                           /\ Receives(c, e2) => Cardinality(HandlerCalls(c, e2)) = 1

\* The handler of b returned a future that is still pending, b has a
\* child, a sibling of b had its handler called for the same emission, and
\* the job queue has drained.
C6_Witness ==
    \E i \in 1..Len(log) :
        /\ log[i].h \in {"onEmit", "onError"}
        /\ log[i].out.t = "fut"
        /\ ~futures[log[i].out.v].settled
        /\ subscribers[log[i].node] # <<>>
        /\ \E c \in Range(emits[log[i].e].subs) \ {log[i].node} :
              HandlerCalls(c, log[i].e) # {}
        /\ queue = <<>>

\* The handler of b returned a future that is still pending and a later
\* emission into the same publisher called b's handler again.
C6_WitnessLater ==
    \E i \in 1..Len(log) :
        /\ log[i].h \in {"onEmit", "onError"}
        /\ log[i].out.t = "fut"
        /\ ~futures[log[i].out.v].settled
        /\ \E e2 \in (log[i].e + 1)..Len(emits) :
              /\ emits[e2].node = emits[log[i].e].node
              /\ HandlerCalls(log[i].node, e2) # {}

\* ------------------------------------------------------------------- C7
\* The subscribers merge made for the merged node m.
MergeSubs(m) == {s \in 1..nNodes : onEmit[s] = MergeEmit(m)}

\* A node constructed by user code (not by subscribe, not by merge).
IsRoot(n) == publisher[n] = 0 /\ n \notin merged

\* Emission e is an emit call of user code, with a plain value, on a root
\* that is a source of the merged node m.
SourceEmit(e, m) ==
    /\ emits[e].cause = 0
    /\ emits[e].val.t = "ok"
    /\ IsRoot(emits[e].node)
    /\ MergeSubs(m) \cap Range(emits[e].subs) # {}

\* The calls of t's onEmit with the value of emission e.
OnEmitWith(t, e) ==
    {i \in 1..Len(log) : log[i].node = t /\ log[i].h = "onEmit" /\ log[i].arg = emits[e].val}

\* C7: for a merged node m over root sources and a subscriber t of m
\* attached before any emission: after user code emits the plain value x
\* into one source and then y into a source, t's onEmit is called exactly
\* once with x and exactly once with y, with x first.
C7_MergeDeliversInOrder ==
    \A m \in merged : \A e1 \in 1..Len(emits) : \A e2 \in (e1 + 1)..Len(emits) :
        (SourceEmit(e1, m) /\ SourceEmit(e2, m))
        => \A t \in Range(subscribers[m]) :
              (t <= emits[e1].count /\ onEmit[t].k = "user")
              => /\ Cardinality(OnEmitWith(t, e1)) <= 1
                 /\ Cardinality(OnEmitWith(t, e2)) <= 1
                 /\ \A y \in OnEmitWith(t, e2) : \E x \in OnEmitWith(t, e1) : x < y
                 /\ queue = <<>>
                    => Cardinality(OnEmitWith(t, e1)) = 1 /\ Cardinality(OnEmitWith(t, e2)) = 1

\* merge([a, b]) over two roots, a subscriber of the merged node, a.emit(x)
\* then b.emit(y), and both values delivered.
C7_Witness ==
    \E m \in merged : \E e1 \in 1..Len(emits) : \E e2 \in (e1 + 1)..Len(emits) :
        /\ SourceEmit(e1, m) /\ SourceEmit(e2, m)
        /\ emits[e1].node # emits[e2].node
        /\ \E t \in Range(subscribers[m]) :
              /\ t <= emits[e1].count
              /\ OnEmitWith(t, e1) # {}
              /\ OnEmitWith(t, e2) # {}

C9_OnEmitInEmissionOrder ==
    /\ \A i \in 1..Len(log) : \A k \in (i + 1)..Len(log) :
          (/\ log[i].node = log[k].node
           /\ log[i].h = "onEmit" /\ log[k].h = "onEmit"
           /\ emits[log[i].e].val.t = "ok" /\ emits[log[k].e].val.t = "ok"
           /\ emits[log[i].e].node = emits[log[k].e].node)
          => log[i].e < log[k].e
    /\ \A e \in 1..Len(emits) : \A c \in Range(emits[e].subs) :
          emits[e].val.t = "ok"
          => /\ \A m \in HandlerCalls(c, e) : log[m].h = "onEmit" /\ log[m].arg = emits[e].val
             /\ (onEmit[c].k # "none" /\ ~InFlight(c, e, 1))
                => Cardinality(HandlerCalls(c, e)) = 1

\* Second half of C9: a subscriber without handlers hands each plain value
\* to its own emit, unchanged: once the chain has left the queue the
\* subscriber has made an emit call with that value.
C9_PassThroughEmits ==
    \A e \in 1..Len(emits) : \A s \in Range(emits[e].subs) :
        (/\ emits[e].val.t = "ok"
         /\ onEmit[s].k = "none" /\ onError[s].k = "none"
         /\ ~InFlight(s, e, 1) /\ ~InFlight(s, e, 2))
        => \E k \in EmitsBy(s, e, s) : emits[k].val = emits[e].val

\* C9: plain values v1..vn emitted into a node reach each subscriber's
\* onEmit in emission order, unchanged, and a subscriber with no handlers
\* passes them in the same order to its own emit.
C9_ValuesInOrderUnchanged == C9_OnEmitInEmissionOrder /\ C9_PassThroughEmits

\* ------------------------------------------------------------------ C10
\* C10: for each emit call, every subscriber in the receiver's subscribers
\* sequence at the time of the call has exactly one handler call for that
\* emission (onEmit for a success, onError for a failure, with the emitted
\* value), and no other node has one.
C10_FanOutExactlyOnce ==
    /\ \A e \in 1..Len(emits) : \A c \in Range(emits[e].subs) :
          /\ Cardinality(HandlerCalls(c, e)) <= 1
          /\ \A m \in HandlerCalls(c, e) :
                log[m].h = FirstHandlerName(EmittedVal(e)) /\ log[m].arg = EmittedVal(e)
          /\ Receives(c, e) => Cardinality(HandlerCalls(c, e)) = 1
    /\ \A m \in 1..Len(log) : log[m].node \in Range(emits[log[m].e].subs)

\* Two subscribers of one node and two emissions into it: each subscriber
\* has had its onEmit called with the first value and then the second.
C10_Witness ==
    \E p \in 1..nNodes : \E c \in Range(subscribers[p]) : \E d \in Range(subscribers[p]) :
        /\ c # d
        /\ \E e1 \in 1..Len(emits) : \E e2 \in (e1 + 1)..Len(emits) :
              /\ emits[e1].node = p /\ emits[e2].node = p
              /\ \A x \in {c, d} : \E i \in HandlerCalls(x, e1) : \E k \in HandlerCalls(x, e2) :
                    i < k /\ log[i].h = "onEmit" /\ log[k].h = "onEmit"

\* ------------------------------------------------------------------ C11
\* Handler call i is a user handler of a subscriber failing (throwing, or
\* returning a future that rejected) on the plain value of emission e.
FailedOnValue(i) ==
    /\ log[i].h = "onEmit"
    /\ onEmit[log[i].node].k = "user"
    /\ emits[log[i].e].val.t = "ok"
    /\ Outcome(i).t = "err"

\* C11: sibling isolation under failure: when a subscriber s1 of a node
\* fails while handling the emitted value v, every other subscriber s2 the
\* same emit call dispatched to still has its onEmit called with v, exactly
\* once when its first reaction has left the queue, and nothing that s1's
\* failure causes reaches s2 or a child of s2: no handler of s2 or of a
\* child of s2 is called for an emission descending from s1's chain, and
\* s1's chain emits only into s1.
C11_SiblingIsolation ==
    \A i \in 1..Len(log) :
        FailedOnValue(i) =>
            LET s1 == log[i].node
                e == log[i].e
            IN  /\ \A k \in 1..Len(emits) :
                      (emits[k].cause = e /\ emits[k].via = s1) => emits[k].node = s1
                /\ \A s2 \in Range(emits[e].subs) \ {s1} :
                      /\ \A m \in HandlerCalls(s2, e) :
                            log[m].h = "onEmit" /\ log[m].arg = emits[e].val
                      /\ Cardinality(HandlerCalls(s2, e)) <= 1
                      /\ Receives(s2, e) => Cardinality(HandlerCalls(s2, e)) = 1
                      /\ \A m \in 1..Len(log) :
                            (/\ log[m].h \in {"onEmit", "onError"}
                             /\ log[m].node = s2 \/ publisher[log[m].node] = s2)
                            => ~FromChain(log[m].e, s1, e)

\* s1 threw on a value, its sibling s2, subscribed before s1 and with a
\* child of its own, had its onEmit called with the value, and every
\* reaction has run.
C11_Witness ==
    /\ queue = <<>>
    /\ \E i \in 1..Len(log) :
          /\ FailedOnValue(i)
          /\ EmitsBy(log[i].node, log[i].e, log[i].node) # {}
          /\ \E s2 \in Range(emits[log[i].e].subs) \ {log[i].node} :
                /\ subscribers[s2] # <<>>
                /\ \E m \in HandlerCalls(s2, log[i].e) : log[m].arg = emits[log[i].e].val

\* ------------------------------------------------------------------ C12
\* Handler call i ran on a subscriber after it had called unsubscribe and
\* was no longer in its publisher's subscribers: the emission was in flight
\* when it unsubscribed.
RanAfterUnsubscribe(i) ==
    /\ log[i].h \in {"onEmit", "onError"}
    /\ onEmit[log[i].node].k = "user"
    /\ unsubAt[log[i].node] # -1
    /\ log[i].e <= unsubAt[log[i].node]
    /\ ~log[i].attached

\* First half of C12: an emit call made while c was subscribed still calls
\* c's handler, exactly once when c's first reaction has left the queue,
\* whether or not c has unsubscribed since.
C12_HandlerStillInvoked ==
    \A e \in 1..Len(emits) : \A c \in Range(emits[e].subs) :
        (unsubAt[c] # -1 /\ e <= unsubAt[c] /\ Receives(c, e))
        => Cardinality(HandlerCalls(c, e)) = 1

\* Second half of C12, for a handler that fails: the failure is still
\* forwarded into c, to the children c has.
C12_FailureStillForwarded ==
    \A i \in 1..Len(log) :
        (RanAfterUnsubscribe(i) /\ Outcome(i).t = "err")
        => FailureReachesChildren(log[i].node, log[i].e, Outcome(i).v)

\* C12: unsubscribe does not cancel an emission in flight: an emit call
\* made on c's publisher while c was subscribed still calls c's handler
\* after c has unsubscribed, and what the handler produced is still
\* forwarded to c's own children: once c's chain has left the queue, c has
\* emitted the result into itself.
C12_UnsubscribeDoesNotCancel ==
    /\ C12_HandlerStillInvoked
    /\ \A i \in 1..Len(log) :
          (/\ RanAfterUnsubscribe(i)
           /\ Outcome(i).t # "fut"
           /\ ~InFlight(log[i].node, log[i].e, 2))
          => \E k \in EmitsBy(log[i].node, log[i].e, log[i].node) :
                emits[k].val = Outcome(i)

\* The handler of an unsubscribed node ran for an emission in flight and
\* failed, and the node's child had its onError called with the reason.
C12_ReachableFailure ==
    \E i \in 1..Len(log) :
        /\ RanAfterUnsubscribe(i)
        /\ Outcome(i).t = "err"
        /\ \E k \in EmitsBy(log[i].node, log[i].e, log[i].node) :
              \E g \in Range(emits[k].subs) : HandlerCalls(g, k) # {}

\* ------------------------------------------------------------------ C13
\* A step in which c.unsubscribe() is called leaves every subscribers
\* sequence but that of c's publisher as it was, c's own included, and
\* leaves every handler and every publisher reference as it was.
UnsubscribeFrame ==
    \A c \in Nodes :
        Unsubscribe(c) =>
            /\ \A n \in Nodes : n # publisher[c] => subscribers'[n] = subscribers[n]
            /\ onEmit' = onEmit /\ onError' = onError
            /\ publisher' = publisher

\* An emit call made by user code on a node c after c unsubscribed is
\* dispatched to every child of c: with no child of c ever unsubscribed,
\* every node subscribed to c before the call is among the subscribers the
\* call dispatched to and has its handler called exactly once when its
\* first reaction has left the queue.
EmitAfterUnsubscribeReachesChildren ==
    \A e \in 1..Len(emits) :
        LET c == emits[e].node
        IN  (/\ emits[e].cause = 0
             /\ unsubAt[c] # -1 /\ e > unsubAt[c]
             /\ \A g \in Nodes : publisher[g] = c => unsubAt[g] = -1)
            => \A g \in 1..emits[e].count :
                  publisher[g] = c =>
                      /\ g \in Range(emits[e].subs)
                      /\ Cardinality(HandlerCalls(g, e)) <= 1
                      /\ Receives(g, e) => Cardinality(HandlerCalls(g, e)) = 1

\* C13: c.unsubscribe() changes only the subscribers sequence of c's
\* publisher: c's own subscribers, c's handlers and c's publisher reference
\* stay as they were, and a value emitted directly into c after the
\* unsubscribe is still dispatched to every child of c.
C13_UnsubscribeChangesOnlyPublisher ==
    /\ [][UnsubscribeFrame]_vars
    /\ []EmitAfterUnsubscribeReachesChildren

\* c has unsubscribed from its publisher and is no longer in its
\* subscribers; a value emitted into c afterwards called the handler of
\* c's child.
C13_Witness ==
    \E e \in 1..Len(emits) :
        LET c == emits[e].node
        IN  /\ emits[e].cause = 0
            /\ publisher[c] # 0
            /\ unsubAt[c] # -1 /\ e > unsubAt[c]
            /\ IndexOf(subscribers[publisher[c]], c) = -1
            /\ \E g \in Range(subscribers[c]) : HandlerCalls(g, e) # {}

\* ------------------------------------------------------------------ C14
\* A step in which user code calls the function an executor was handed,
\* for root n and with val, does what n.emit(val) does: one emit call on n
\* is recorded and the first reactions of n's current subscribers are
\* queued with val, in order; nothing else changes.
ExecutorEmitIsEmit ==
    \A n \in Nodes : \A val \in Emitted :
        ExecutorEmit(n, val) =>
            /\ emits' = Append(emits, EmitRecord(n, val, 0, 0))
            /\ queue' = queue \o EmitJobs(n, val, Len(emits) + 1)
            /\ UNCHANGED <<nNodes, subscribers, publisher, onEmit, onError, merged,
                           futures, mode, log, unsubAt>>

\* The executor of merge runs once, inside the constructor: the step that
\* constructs the merged node m has subscribed one node to each item of
\* the iterable, and that node's onEmit is the function the executor was
\* handed, emit bound to m.
ExecutorRunsInConstructor ==
    \A srcs \in Iterables :
        Merge(srcs) =>
            LET m == nNodes + 1
            IN  \A i \in 1..Len(srcs) :
                   /\ subscribers'[srcs[i]] = Append(subscribers[srcs[i]], m + i)
                   /\ onEmit'[m + i] = MergeEmit(m)

\* C14: the function handed to a constructor's executor is the node's emit
\* bound to that node, and the executor runs synchronously, once, during
\* construction: calling the function later, detached from the node,
\* dispatches its argument to the node's current subscribers exactly as
\* node.emit(value) would.
C14_ExecutorGetsBoundEmit ==
    /\ [][ExecutorEmitIsEmit]_vars
    /\ [][ExecutorRunsInConstructor]_vars

\* Every emit call of user code so far went through the function an
\* executor was handed, and a subscriber's handler has been called with the
\* value of such a call.
C14_Witness ==
    /\ calls.external >= 1 /\ calls.external = calls.emit
    /\ \E e \in 1..Len(emits) :
          /\ emits[e].cause = 0
          /\ \E c \in Range(emits[e].subs) :
                \E m \in HandlerCalls(c, e) : log[m].arg = emits[e].val

\* ------------------------------------------------------------------ C15
\* The places (node n, index i) at which node c occurs in a subscribers
\* sequence.
Occurrences(c) ==
    UNION {{<<n, i>> : i \in {j \in 1..Len(subscribers[n]) : subscribers[n][j] = c}} : n \in Nodes}

\* C15: in every reachable state each node occurs in the subscribers
\* sequence of at most one node and occurs there at most once, and a node
\* that occurs in some node's subscribers has that node as its publisher.
C15_SubscribersFormForest ==
    \A c \in Nodes :
        /\ Cardinality(Occurrences(c)) <= 1
        /\ \A p \in Occurrences(c) : publisher[c] = p[1]

\* A merged node exists, some node has two subscribers, and a node has
\* unsubscribed and left its publisher's subscribers.
C15_Witness ==
    /\ merged # {}
    /\ \E n \in Nodes : Len(subscribers[n]) >= 2
    /\ \E c \in Nodes : unsubAt[c] # -1 /\ publisher[c] # 0 /\ Occurrences(c) = {}

\* ------------------------------------------------------------------ C16
\* C16: for one emit call with a plain value on a node with subscribers
\* s1..sk, in subscription order, the first-stage handlers are called in
\* that order: when si precedes sj and both have an onEmit, every call of
\* sj's onEmit for the emission comes after a call of si's.
C16_HandlersInSubscriptionOrder ==
    \A e \in 1..Len(emits) :
        emits[e].val.t = "ok" =>
            \A a, b \in 1..Len(emits[e].subs) :
                LET si == emits[e].subs[a]
                    sj == emits[e].subs[b]
                IN  (a < b /\ onEmit[si].k # "none" /\ onEmit[sj].k # "none")
                    => \A y \in HandlerCalls(sj, e) :
                          \E x \in HandlerCalls(si, e) : x < y

\* One emit call with a plain value has called the onEmit of two
\* subscribers of the node, the earlier subscriber's first.
C16_Witness ==
    \E e \in 1..Len(emits) :
        /\ emits[e].val.t = "ok"
        /\ \E a, b \in 1..Len(emits[e].subs) :
              /\ a < b
              /\ \E x \in HandlerCalls(emits[e].subs[a], e) :
                    \E y \in HandlerCalls(emits[e].subs[b], e) : x < y

\* ------------------------------------------------------------------ C17
\* C17: the subscribers that receive an emission are fixed when emit is
\* called: a node subscribed to the emitting node after the emit call
\* returned never has a handler called for that emission and has no
\* reaction queued or waiting for it, whether or not the emitted future
\* had settled or the earlier subscribers' handlers had run when it
\* subscribed.
C17_LateSubscriberNotReached ==
    \A e \in 1..Len(emits) : \A c \in Nodes :
        (publisher[c] = emits[e].node /\ c > emits[e].count)
        => /\ HandlerCalls(c, e) = {}
           /\ ~InFlight(c, e, 1)

\* A pending future was emitted, a node with an onEmit subscribed while it
\* was pending, the future resolved and an earlier subscriber's onEmit was
\* called with the value, and every reaction has run.
C17_Witness ==
    /\ queue = <<>>
    /\ \E e \in 1..Len(emits) :
          /\ emits[e].val.t = "fut"
          /\ EmittedVal(e).t = "ok"
          /\ \E a \in Range(emits[e].subs) : HandlerCalls(a, e) # {}
          /\ \E c \in Range(subscribers[emits[e].node]) :
                c > emits[e].count /\ onEmit[c].k = "user"

\* ------------------------------------------------------------------ C18
\* A handler of a child of s is called for the emission that s's chain made
\* only after s's own handler was called for it, and only once what that
\* handler produced is known: a future it returned has settled.
ChildrenWaitForTransform ==
    \A m \in 1..Len(log) :
        LET k == log[m].e
            s == emits[k].via
        IN  (log[m].h \in {"onEmit", "onError"} /\ s # 0 /\ emits[k].node = s)
            => \A i \in HandlerCalls(s, emits[k].cause) :
                  i < m /\ Outcome(i).t # "fut"

\* No step that makes emit calls also calls a handler for them, and user
\* code's own turn, in which it calls emit, calls no handler at all: emit
\* has returned before any handler runs for the emission.
EmitReturnsBeforeHandlers ==
    /\ mode = "sync" => log' = log
    /\ \A m \in (Len(log) + 1)..Len(log') :
          log'[m].h \in {"onEmit", "onError"} => log'[m].e <= Len(emits)

\* C18: backpressure ordering: for every emission delivered to a
\* subscriber s, no handler of a child of s is called for it before the
\* future produced by s's transform has settled, and the emit call on s's
\* publisher returns before s's transform is called: emit never runs a
\* subscriber handler synchronously.
C18_BackpressureOrdering ==
    /\ []ChildrenWaitForTransform
    /\ [][EmitReturnsBeforeHandlers]_vars

\* s's handler returned a pending future that later rejected, and only
\* then was the onError of s's child called with the reason.
C18_Witness ==
    \E m \in 1..Len(log) :
        LET k == log[m].e
            s == emits[k].via
        IN  /\ log[m].h = "onError" /\ s # 0 /\ emits[k].node = s
            /\ \E i \in HandlerCalls(s, emits[k].cause) :
                  /\ i < m
                  /\ log[i].out.t = "fut"
                  /\ log[m].arg = Outcome(i)

\* ------------------------------------------------------------------ C19
\* C19: emit takes a plain value, a pending future or a failed future:
\* while an emitted future is pending no subscriber handler is called for
\* the emission; a handler is never called with the future itself but with
\* what the emission carries once settled, onEmit when that is a value v,
\* onError when it is a failure with reason r (an already failed future
\* included); and each subscriber that has the handler is called exactly
\* once when its first reaction has left the queue.
C19_EmitIsPolymorphic ==
    \A e \in 1..Len(emits) : \A c \in Range(emits[e].subs) :
        /\ EmittedVal(e).t = "fut" => HandlerCalls(c, e) = {}
        /\ \A m \in HandlerCalls(c, e) :
              /\ log[m].arg.t # "fut"
              /\ log[m].arg = EmittedVal(e)
              /\ log[m].h = (IF EmittedVal(e).t = "ok" THEN "onEmit" ELSE "onError")
        /\ Cardinality(HandlerCalls(c, e)) <= 1
        /\ Receives(c, e) => Cardinality(HandlerCalls(c, e)) = 1

\* A pending future was emitted and later rejected with r, and a
\* subscriber's onError was called with r.
C19_Witness ==
    \E e \in 1..Len(emits) :
        /\ emits[e].val.t = "fut"
        /\ EmittedVal(e).t = "err"
        /\ \E c \in Range(emits[e].subs) : \E m \in HandlerCalls(c, e) :
              log[m].h = "onError" /\ log[m].arg = EmittedVal(e)

\* A pending future was emitted and later resolved to v, and a subscriber's
\* onEmit was called with v.
C19_WitnessResolved ==
    \E e \in 1..Len(emits) :
        /\ emits[e].val.t = "fut"
        /\ EmittedVal(e).t = "ok"
        /\ \E c \in Range(emits[e].subs) : \E m \in HandlerCalls(c, e) :
              log[m].h = "onEmit" /\ log[m].arg = EmittedVal(e)

\* A pending future was emitted to a subscriber with handlers and has not
\* settled.
C19_WitnessPending ==
    \E e \in 1..Len(emits) :
        /\ EmittedVal(e).t = "fut"
        /\ \E c \in Range(emits[e].subs) : onEmit[c].k = "user" /\ InFlight(c, e, 1)

\* ------------------------------------------------------------------ C20
\* Handler call i is the onError of a subscriber returning normally, with a
\* value or with a future that resolved to one.
Recovered(i) ==
    /\ log[i].h = "onError"
    /\ onError[log[i].node].k = "user"
    /\ Outcome(i).t = "ok"

\* Part of C20: no child of s has its onError called for an emission that
\* s's chain made after s's onError recovered.
C20_NoChildOnError ==
    \A i \in 1..Len(log) :
        Recovered(i) =>
            \A m \in 1..Len(log) :
                (/\ log[m].h = "onError"
                 /\ publisher[log[m].node] = log[i].node)
                => ~FromChain(log[m].e, log[i].node, log[i].e)

\* C20: failure recovery: when a failed value reaches a subscriber s whose
\* onError returns normally with a value w (or a future resolving to w), s
\* forwards w as a success: once the job queue has drained every child g of
\* s that has an onEmit has had it called with w by an emission that s made
\* for that chain, and no child of s has its onError called for it.
C20_FailureRecovery ==
    /\ C20_NoChildOnError
    /\ \A i \in 1..Len(log) :
          (Recovered(i) /\ queue = <<>>)
          => \A g \in SteadyChildren(log[i].node, log[i].e) :
                onEmit[g].k = "user"
                => \E m \in 1..Len(log) :
                      /\ log[m].node = g
                      /\ log[m].h = "onEmit"
                      /\ log[m].arg = Outcome(i)
                      /\ emits[log[m].e].cause = log[i].e
                      /\ emits[log[m].e].via = log[i].node

====
